---- MODULE Spec2Model ----
(***************************************************************************)
(* Model of the request / session layer of astrometry_net_client:          *)
(*   client.py   Session (API key resolution, login)                       *)
(*   request.py  Request, PostRequest, AuthorizedRequest                   *)
(* The library is single threaded.  One caller constructs a Session and    *)
(* then performs operations on it; every network round trip is one step    *)
(* whose answer is chosen by the server (nondeterministically).            *)
(***************************************************************************)
EXTENDS Integers, Sequences, FiniteSets, TLC

(***************************************************************************)
(* Bounds                                                                  *)
(***************************************************************************)
\* number of operations the caller performs on one Session
MaxOps == 2

(***************************************************************************)
(* Python values                                                           *)
(***************************************************************************)
\* Python's None, in the places that otherwise hold a string
None == "<None>"
\* an attribute that has not been assigned (Session.key before a login)
NoAttr == "<unset>"
\* an argument the caller leaves out, so that its default applies
Omitted == "<omitted>"
\* the empty dict
EmptyDict == [k \in {} |-> ""]

\* a dict object: its identity and its items.  Two names are aliases of
\* one object when they hold the same identity.
Obj(id, items) == [id |-> id, items |-> items]

\* None passed where a dict is expected
NoneObj == Obj("None", EmptyDict)

\* d.copy(): a new object, named id, with the items of d
dict_copyShared(d, id) == d

dict_copy(d, id) == Obj(id, d.items)

\* d[k] = v on a dict object
DictSet(d, k, v) ==
    [d EXCEPT !.items = [x \in (DOMAIN d.items) \cup {k} |->
                            IF x = k THEN v ELSE d.items[x]]]

\* dict.get(k, default)
Get(m, k, default) == IF k \in DOMAIN m THEN m[k] ELSE default

\* {**a, **b}: the keys of both, b's value on a collision
MergeFirstWins(a, b) ==
    [k \in (DOMAIN a) \cup (DOMAIN b) |-> IF k \in DOMAIN a THEN a[k] ELSE b[k]]

Merge(a, b) ==
    [k \in (DOMAIN a) \cup (DOMAIN b) |-> IF k \in DOMAIN b THEN b[k] ELSE a[k]]

\* json.dumps(obj): the serialized text, kept as a tagged tree
json_dumps(obj) == [json |-> obj]

\* str(obj): the printed representation, kept as a tagged tree
Str(obj) == [str |-> obj]

\* s.startswith(p) on strings held as sequences of characters
StartsWithWholeOnly(s, p) == s = p

StartsWith(s, p) == Len(s) >= Len(p) /\ SubSeq(s, 1, Len(p)) = p

\* the result of a call: a returned value or a raised exception
Return(v) == [kind |-> "return", value |-> v, exc |-> None, arg |-> None]

Raise(e, a) == [kind |-> "raise", value |-> None, exc |-> e, arg |-> a]

(***************************************************************************)
(* The server's answers                                                    *)
(***************************************************************************)
\* 'no "session" in JSON.'
NO_SESSION_MSG ==
    <<"n","o"," ","\"","s","e","s","s","i","o","n","\""," ","i","n"," ","J","S","O","N",".">>

\* 'no session with key'
INVALID_SESSION_PREFIX ==
    <<"n","o"," ","s","e","s","s","i","o","n"," ","w","i","t","h"," ","k","e","y">>

\* 'bad apikey'
BadRequestMsg ==
    <<"b","a","d"," ","a","p","i","k","e","y">>

\* error texts the server may send: the two special ones, near misses of
\* both, and an ordinary one
ErrMsgs ==
    { NO_SESSION_MSG,
      NO_SESSION_MSG \o <<" ">>,
      INVALID_SESSION_PREFIX,
      INVALID_SESSION_PREFIX \o <<" ","a","b","c">>,
      SubSeq(INVALID_SESSION_PREFIX, 1, Len(INVALID_SESSION_PREFIX) - 1),
      BadRequestMsg }

\* session keys the server hands out
SessionKeys == {"K1", "K2"}

\* a body that response.json() cannot decode
Undecodable == [undecodable |-> "<html>"]

\* decoded JSON bodies
DecodedResponses ==
    {[status |-> "success", session |-> k] : k \in SessionKeys}
    \cup {[status |-> "success"], [status |-> "failure"], [message |-> "hello"]}
    \cup {[status |-> "error", errormessage |-> m] : m \in ErrMsgs}
    \cup {[status |-> "error"]}

Responses == DecodedResponses \cup {Undecodable}

(***************************************************************************)
(* request.py                                                              *)
(***************************************************************************)
login_url == "login_url"

_method_dict == [post |-> "requests.post", get |-> "requests.get"]

\* str.lower() on the method selectors callers pass
lowerNot(s) == s

lower(s) ==
    CASE s = "GET" -> "get"
      [] s = "Post" -> "post"
      [] OTHER -> s

\* Request.__init__: the new object, or the KeyError of the method lookup.
\* data and settings are dict objects (or None); the request keeps copies.
Request__init__(url, method, data, settings) ==
    LET m == IF method = Omitted THEN "get" ELSE method
    IN IF lower(m) \in DOMAIN _method_dict
       THEN [out |-> Return(None),
             self |-> [url |-> url, method |-> _method_dict[lower(m)],
                       data |-> IF data = NoneObj
                                THEN Obj("request.data", EmptyDict)
                                ELSE dict_copy(data, "request.data"),
                       settings |-> IF settings = NoneObj
                                    THEN Obj("request.settings", EmptyDict)
                                    ELSE dict_copy(settings, "request.settings"),
                       response |-> None]]
       ELSE [out |-> Raise("KeyError", lower(m)),
             self |-> None]

\* no request object: construction has not happened, or it raised
NoRequest ==
    [url |-> None, method |-> None, data |-> NoneObj, settings |-> NoneObj,
     response |-> None]

\* PostRequest.__init__: the default of method is 'post'
PostRequest__init__(url, method, data, settings) ==
    Request__init__(url, IF method = Omitted THEN "post" ELSE method,
                    data, settings)

\* the transport call Request._make_request issues
TransportCall(self) ==
    [method |-> self.method, url |-> self.url,
     data |-> [request_json |->
                  json_dumps(Merge(self.data.items, self.settings.items))]]

\* the status / errormessage classification of a decoded response
Classify(response) ==
    IF Get(response, "status", "") = "error"
    THEN IF "errormessage" \notin DOMAIN response
         THEN Raise("KeyError", "errormessage")
         ELSE LET err_msg == response["errormessage"]
              IN IF err_msg = NO_SESSION_MSG
                 THEN Raise("NoSessionError", err_msg)
                 ELSE IF StartsWith(err_msg, INVALID_SESSION_PREFIX)
                 THEN Raise("InvalidSessionError", err_msg)
                 ELSE Raise("InvalidRequest", err_msg)
    ELSE Return(response)

\* Request._make_request, given the body the server answers with
Request_make_request(self, body) ==
    IF body = Undecodable
    THEN [self |-> self, call |-> TransportCall(self),
          out |-> Raise("JSONDecodeError", None)]
    ELSE [self |-> [self EXCEPT !.response = body],
          call |-> TransportCall(self),
          out |-> Classify(body)]

(***************************************************************************)
(* client.py                                                               *)
(***************************************************************************)
\* key files on disk
files == [keyfile |-> "FILEKEY"]

\* config.read_api_key: the contents of the file at the given path
read_api_key(key_location) == files[key_location]

\* os.environ.get(name): the value, or None; it never raises
os_environ_get(env, name) ==
    [raised |-> FALSE, value |-> Get(env, name, None)]

\* Session.__init__: the new object or the exception, and the sources read
Session__init__EnvFirst(api_key, key_location, env) ==
    IF api_key # None
    THEN [out |-> Return(None), read |-> {},
          self |-> [api_key |-> api_key, logged_in |-> FALSE, key |-> NoAttr]]
    ELSE IF "ASTROMETRY_API_KEY" \in DOMAIN env
    THEN [out |-> Return(None), read |-> {"environment"},
          self |-> [api_key |-> env["ASTROMETRY_API_KEY"],
                    logged_in |-> FALSE, key |-> NoAttr]]
    ELSE IF key_location # None
    THEN [out |-> Return(None), read |-> {"environment", "file"},
          self |-> [api_key |-> read_api_key(key_location),
                    logged_in |-> FALSE, key |-> NoAttr]]
    ELSE [out |-> Return(None), read |-> {"environment"},
          self |-> [api_key |-> None, logged_in |-> FALSE, key |-> NoAttr]]

Session__init__(api_key, key_location, env) ==
    IF api_key # None
    THEN [out |-> Return(None), read |-> {},
          self |-> [api_key |-> api_key, logged_in |-> FALSE, key |-> NoAttr]]
    ELSE IF key_location # None
    THEN [out |-> Return(None), read |-> {"file"},
          self |-> [api_key |-> read_api_key(key_location),
                    logged_in |-> FALSE, key |-> NoAttr]]
    ELSE LET got == os_environ_get(env, "ASTROMETRY_API_KEY")
         IN IF got.raised
            THEN [out |-> Raise("APIKeyError", None), read |-> {"environment"},
                  self |-> None]
            ELSE [out |-> Return(None), read |-> {"environment"},
                  self |-> [api_key |-> got.value, logged_in |-> FALSE,
                            key |-> NoAttr]]

\* does this login(force) reach the network?
LoginSendsAlways(self, force) == TRUE

LoginSends(self, force) == ~(~force /\ self.logged_in)

\* the assignments at the end of a successful login
LoginStoreFlagOnly(self, response) ==
    [self EXCEPT !.logged_in = TRUE]

LoginStoreKeepsOldKey(self, response) ==
    IF self.key = NoAttr
    THEN [self EXCEPT !.key = response["session"], !.logged_in = TRUE]
    ELSE [self EXCEPT !.logged_in = TRUE]

LoginStore(self, response) ==
    [self EXCEPT !.key = response["session"], !.logged_in = TRUE]

\* Session.login(force), given the body the server answers with (used only
\* when the login reaches the network)
Session_loginFlagEarly(self, force, body) ==
    IF ~LoginSends(self, force)
    THEN [self |-> self, out |-> Return(None), calls |-> <<>>]
    ELSE LET r == PostRequest__init__(login_url, Omitted,
                                      Obj("login.data", [apikey |-> self.api_key]),
                                      NoneObj)
             m == Request_make_request(r.self, body)
             c == <<[to |-> "login", force |-> force, call |-> m.call, body |-> body]>>
             early == [self EXCEPT !.logged_in = TRUE]
         IN IF m.out.kind = "raise"
            THEN [self |-> early, out |-> m.out, calls |-> c]
            ELSE IF Get(m.out.value, "status", None) # "success"
            THEN [self |-> early, calls |-> c,
                  out |-> Raise("LoginFailedException", Str(m.out.value))]
            ELSE IF "session" \notin DOMAIN m.out.value
            THEN [self |-> early, calls |-> c,
                  out |-> Raise("KeyError", "session")]
            ELSE [self |-> LoginStore(self, m.out.value), calls |-> c,
                  out |-> Return(None)]

Session_loginResetsFlag(self, force, body) ==
    IF ~LoginSends(self, force)
    THEN [self |-> self, out |-> Return(None), calls |-> <<>>]
    ELSE LET r == PostRequest__init__(login_url, Omitted,
                                      Obj("login.data", [apikey |-> self.api_key]),
                                      NoneObj)
             m == Request_make_request(r.self, body)
             c == <<[to |-> "login", force |-> force, call |-> m.call, body |-> body]>>
             out == [self EXCEPT !.logged_in = FALSE]
         IN IF m.out.kind = "raise"
            THEN [self |-> out, out |-> m.out, calls |-> c]
            ELSE IF Get(m.out.value, "status", None) # "success"
            THEN [self |-> out, calls |-> c,
                  out |-> Raise("LoginFailedException", Str(m.out.value))]
            ELSE IF "session" \notin DOMAIN m.out.value
            THEN [self |-> out, calls |-> c,
                  out |-> Raise("KeyError", "session")]
            ELSE [self |-> LoginStore(self, m.out.value), calls |-> c,
                  out |-> Return(None)]

Session_login(self, force, body) ==
    IF ~LoginSends(self, force)
    THEN [self |-> self, out |-> Return(None), calls |-> <<>>]
    ELSE LET r == PostRequest__init__(login_url, Omitted,
                                      Obj("login.data", [apikey |-> self.api_key]),
                                      NoneObj)
             m == Request_make_request(r.self, body)
             c == <<[to |-> "login", force |-> force, call |-> m.call, body |-> body]>>
         IN IF m.out.kind = "raise"
            THEN [self |-> self, out |-> m.out, calls |-> c]
            ELSE IF Get(m.out.value, "status", None) # "success"
            THEN [self |-> self, calls |-> c,
                  out |-> Raise("LoginFailedException", Str(m.out.value))]
            ELSE IF "session" \notin DOMAIN m.out.value
            THEN [self |-> self, calls |-> c,
                  out |-> Raise("KeyError", "session")]
            ELSE [self |-> LoginStore(self, m.out.value), calls |-> c,
                  out |-> Return(None)]

\* the except clause of AuthorizedRequest._make_request
CatchesAnyApiError(out) ==
    out.kind = "raise"
    /\ out.exc \in {"InvalidSessionError", "NoSessionError", "InvalidRequest"}

Catches(out) == out.kind = "raise" /\ out.exc = "InvalidSessionError"

(***************************************************************************)
(* The caller                                                              *)
(***************************************************************************)
\* arguments a caller may pass to Session(...)
ApiKeyArgs == {None, "ARGKEY"}

KeyLocations == {None, "keyfile"}

\* the process environment: the variable is unset or set
Environments ==
    {EmptyDict, [k \in {"ASTROMETRY_API_KEY"} |-> "ENVKEY"]}

\* method, data and settings arguments a caller may pass to a request
RequestArgs ==
    { [method |-> Omitted, data |-> EmptyDict, settings |-> EmptyDict],
      [method |-> "GET",  data |-> [a |-> "1"], settings |-> [a |-> "2"]],
      [method |-> "post", data |-> [a |-> "1", session |-> "stale"],
                          settings |-> EmptyDict],
      [method |-> "Post", data |-> [a |-> "1"], settings |-> [session |-> "forged"]],
      [method |-> "put",  data |-> EmptyDict, settings |-> EmptyDict] }

\* the same for a PostRequest: the method left out, and overridden
PostRequestArgs ==
    { [method |-> Omitted, data |-> [a |-> "1"], settings |-> [b |-> "2"]],
      [method |-> "get",   data |-> EmptyDict, settings |-> EmptyDict] }

\* the caller's own objects for the arguments a, and the values passed
CallerArgs(a) ==
    [method |-> a.method,
     data |-> Obj("caller.data", a.data),
     settings |-> Obj("caller.settings", a.settings),
     given |-> a]

\* the caller's objects after obj was written through a name of the request
WriteThrough(c, obj) ==
    [c EXCEPT !.data = IF c.data.id = obj.id THEN obj ELSE c.data,
              !.settings = IF c.settings.id = obj.id THEN obj ELSE c.settings]

VARIABLES
    environ,       \* os.environ
    sessionState,  \* "absent", "constructed", or "raised" (__init__ raised)
    ctor,          \* the arguments and the result of Session(...)
    session,       \* the Session object: api_key, logged_in, key
    pc,            \* where the caller is: "idle", or inside a send
    op,            \* the current or last operation: "login", "request", "auth"
    ops,           \* the operations completed on the Session, in order
    request,       \* the Request / AuthorizedRequest object in use
    args,          \* the data and settings mappings the caller passed
    calls,         \* the network calls of the current operation, in order
    pending,       \* result of the last super()._make_request()
    result,        \* what the last operation returned or raised
    loginCalls,    \* login network calls since the Session was constructed
    serverKey      \* session value of the latest successful login response

vars == <<environ, sessionState, ctor, session, pc, op, ops, request, args,
          calls, pending, result, loginCalls, serverKey>>

\* no operation has been started yet
NoOperation ==
    /\ pc = "idle"
    /\ op = None
    /\ ops = <<>>
    /\ request = NoRequest
    /\ args = None
    /\ calls = <<>>
    /\ pending = None
    /\ result = None
    /\ loginCalls = 0
    /\ serverKey = NoAttr

\* before Session(...) is called, in either environment
InitAbsent ==
    /\ environ \in Environments
    /\ sessionState = "absent"
    /\ ctor = None
    /\ session = None
    /\ NoOperation

\* after Session(api_key="ARGKEY")
Init ==
    /\ environ = EmptyDict
    /\ sessionState = "constructed"
    /\ LET r == Session__init__("ARGKEY", None, environ)
       IN /\ session = r.self
          /\ ctor = [api_key |-> "ARGKEY", key_location |-> None,
                     out |-> r.out, read |-> r.read]
    /\ NoOperation

\* the caller is between operations
AtRest == pc \in {"idle", "success", "failure"}

CanStart == sessionState = "constructed" /\ AtRest /\ Len(ops) < MaxOps

OpEntry(o, force, out) == [op |-> o, force |-> force, ok |-> out.kind = "return"]

\* the session value of the last successful login among the calls c
KeyAfter(c, old) ==
    IF c # <<>> /\ Get(c[1].body, "status", None) = "success"
                /\ "session" \in DOMAIN c[1].body
    THEN c[1].body["session"] ELSE old

\* Session(api_key, key_location)
Construct(api_key, key_location) ==
    /\ sessionState = "absent"
    /\ LET r == Session__init__(api_key, key_location, environ)
       IN /\ sessionState' = IF r.out.kind = "raise" THEN "raised" ELSE "constructed"
          /\ session' = r.self
          /\ ctor' = [api_key |-> api_key, key_location |-> key_location,
                      out |-> r.out, read |-> r.read]
    /\ UNCHANGED <<environ, pc, op, ops, request, args, calls, pending, result,
                   loginCalls, serverKey>>

\* session.login(force) called by the caller
Login(force, body) ==
    /\ CanStart
    /\ LET l == Session_login(session, force, body)
       IN /\ session' = l.self
          /\ calls' = l.calls
          /\ result' = l.out
          /\ loginCalls' = loginCalls + Len(l.calls)
          /\ serverKey' = IF l.out.kind = "return" THEN KeyAfter(l.calls, serverKey)
                          ELSE serverKey
          /\ ops' = Append(ops, OpEntry("login", force, l.out))
    /\ pc' = "idle"
    /\ op' = "login"
    /\ request' = NoRequest
    /\ args' = None
    /\ pending' = None
    /\ UNCHANGED <<environ, sessionState, ctor>>

\* Request(url, method, data, settings).make()
RequestMake(a, body) ==
    /\ CanStart
    /\ LET c == CallerArgs(a)
           r == Request__init__("some-url", c.method, c.data, c.settings)
       IN IF r.out.kind = "raise"
          THEN /\ request' = NoRequest
               /\ calls' = <<>>
               /\ result' = r.out
          ELSE LET m == Request_make_request(r.self, body)
               IN /\ request' = m.self
                  /\ calls' = <<[to |-> "request", force |-> FALSE,
                                 call |-> m.call, body |-> body]>>
                  /\ result' = m.out
    /\ pc' = "idle"
    /\ op' = "request"
    /\ args' = CallerArgs(a)
    /\ pending' = None
    /\ UNCHANGED <<environ, sessionState, ctor, session, ops, loginCalls,
                   serverKey>>

\* PostRequest(url, data, settings).make(), or with method given
PostRequestMake(a, body) ==
    /\ CanStart
    /\ LET c == CallerArgs(a)
           r == PostRequest__init__("some-url", c.method, c.data, c.settings)
       IN IF r.out.kind = "raise"
          THEN /\ request' = NoRequest
               /\ calls' = <<>>
               /\ result' = r.out
          ELSE LET m == Request_make_request(r.self, body)
               IN /\ request' = m.self
                  /\ calls' = <<[to |-> "request", force |-> FALSE,
                                 call |-> m.call, body |-> body]>>
                  /\ result' = m.out
    /\ pc' = "idle"
    /\ op' = "postrequest"
    /\ args' = CallerArgs(a)
    /\ pending' = None
    /\ UNCHANGED <<environ, sessionState, ctor, session, ops, loginCalls,
                   serverKey>>

\* AuthorizedRequest(session, url, method, data, settings)
AuthNew(a) ==
    /\ CanStart
    /\ LET c == CallerArgs(a)
           r == Request__init__("some-url", c.method, c.data, c.settings)
       IN IF r.out.kind = "raise"
          THEN /\ request' = NoRequest
               /\ result' = r.out
               /\ pc' = "idle"
               /\ ops' = Append(ops, OpEntry("auth", FALSE, r.out))
          ELSE /\ request' = r.self
               /\ result' = None
               /\ pc' = "NOT_SENT"
               /\ ops' = ops
    /\ op' = "auth"
    /\ args' = CallerArgs(a)
    /\ calls' = <<>>
    /\ pending' = None
    /\ UNCHANGED <<environ, sessionState, ctor, session, loginCalls, serverKey>>

\* the login a send performs, and the session field it then writes:
\*   self.session.login(force); self.data['session'] = self.session.key
\* on failure the send ends; on success it moves on to `next`
EnsureSession(force, body, next) ==
    LET l == Session_login(session, force, body)
    IN /\ calls' = calls \o l.calls
       /\ session' = l.self
       /\ loginCalls' = loginCalls + Len(l.calls)
       /\ serverKey' = IF l.out.kind = "return" THEN KeyAfter(l.calls, serverKey)
                       ELSE serverKey
       /\ IF l.out.kind = "raise"
          THEN /\ pc' = "failure"
               /\ result' = l.out
               /\ ops' = Append(ops, OpEntry("auth", FALSE, l.out))
               /\ request' = request
               /\ args' = args
          ELSE IF l.self.key = NoAttr
          THEN /\ pc' = "failure"
               /\ result' = Raise("AttributeError", "key")
               /\ ops' = Append(ops, OpEntry("auth", FALSE, Raise("AttributeError", "key")))
               /\ request' = request
               /\ args' = args
          ELSE /\ pc' = next
               /\ result' = result
               /\ ops' = ops
               /\ LET written == DictSet(request.data, "session", l.self.key)
                  IN /\ request' = [request EXCEPT !.data = written]
                     /\ args' = WriteThrough(args, written)

\* AuthorizedRequest._make_request, lines 122-123
AuthEnsureForce(body) ==
    /\ pc = "NOT_SENT"
    /\ EnsureSession(TRUE, body, "SESSION_ENSURED")
    /\ UNCHANGED <<environ, sessionState, ctor, op, pending>>

AuthEnsure(body) ==
    /\ pc = "NOT_SENT"
    /\ EnsureSession(FALSE, body, "SESSION_ENSURED")
    /\ UNCHANGED <<environ, sessionState, ctor, op, pending>>

\* one super()._make_request()
UnderlyingSend(body, next) ==
    LET m == Request_make_request(request, body)
    IN /\ calls' = Append(calls, [to |-> "request", force |-> FALSE,
                                  call |-> m.call, body |-> body])
       /\ request' = m.self
       /\ pending' = m.out
       /\ pc' = next

\* the first super()._make_request(), line 125
AuthSend1(body) ==
    /\ pc = "SESSION_ENSURED"
    /\ UnderlyingSend(body, "SENT_ONCE")
    /\ UNCHANGED <<environ, sessionState, ctor, session, op, ops, args, result,
                   loginCalls, serverKey>>

\* the send ends with what the last underlying call returned or raised
Finish ==
    /\ pc' = IF pending.kind = "return" THEN "success" ELSE "failure"
    /\ result' = pending
    /\ ops' = Append(ops, OpEntry("auth", FALSE, pending))
    /\ UNCHANGED <<environ, sessionState, ctor, session, op, request, args, calls,
                   pending, loginCalls, serverKey>>

\* line 125 returns, or raises something the except clause does not catch
AuthFinish1 ==
    /\ pc = "SENT_ONCE"
    /\ ~Catches(pending)
    /\ Finish

\* the except clause, lines 126-130
AuthReloginNoRetry(body) ==
    /\ pc = "SENT_ONCE"
    /\ Catches(pending)
    /\ LET l == Session_login(session, TRUE, body)
       IN /\ session' = l.self
          /\ calls' = calls \o l.calls
          /\ loginCalls' = loginCalls + Len(l.calls)
          /\ serverKey' = IF l.out.kind = "return" THEN KeyAfter(l.calls, serverKey)
                          ELSE serverKey
          /\ pc' = "failure"
          /\ result' = IF l.out.kind = "raise" THEN l.out ELSE pending
          /\ ops' = Append(ops, OpEntry("auth", FALSE, pending))
    /\ UNCHANGED <<environ, sessionState, ctor, op, request, args, pending>>

AuthReloginSwallow(body) ==
    /\ pc = "SENT_ONCE"
    /\ Catches(pending)
    /\ LET l == Session_login(session, TRUE, body)
           written == DictSet(request.data, "session", l.self.key)
       IN /\ session' = l.self
          /\ calls' = calls \o l.calls
          /\ loginCalls' = loginCalls + Len(l.calls)
          /\ serverKey' = IF l.out.kind = "return" THEN KeyAfter(l.calls, serverKey)
                          ELSE serverKey
          /\ request' = [request EXCEPT !.data = written]
          /\ args' = WriteThrough(args, written)
          /\ pc' = "RETRY"
    /\ UNCHANGED <<environ, sessionState, ctor, op, ops, pending, result>>

AuthRelogin(body) ==
    /\ pc = "SENT_ONCE"
    /\ Catches(pending)
    /\ EnsureSession(TRUE, body, "RETRY")
    /\ UNCHANGED <<environ, sessionState, ctor, op, pending>>

\* the second super()._make_request(), line 132
AuthSend2(body) ==
    /\ pc = "RETRY"
    /\ UnderlyingSend(body, "SENT_TWICE")
    /\ UNCHANGED <<environ, sessionState, ctor, session, op, ops, args, result,
                   loginCalls, serverKey>>

\* line 132 returns or raises: nothing catches it
AuthFinish2Loop ==
    /\ pc = "SENT_TWICE"
    /\ IF Catches(pending)
       THEN /\ pc' = "SENT_ONCE"
            /\ UNCHANGED <<environ, sessionState, ctor, session, op, ops, request,
                           args, calls, pending, result, loginCalls, serverKey>>
       ELSE Finish

AuthFinish2 ==
    /\ pc = "SENT_TWICE"
    /\ Finish

Next ==
    \/ \E force \in BOOLEAN, body \in Responses : Login(force, body)
    \/ \E a \in RequestArgs, body \in Responses : RequestMake(a, body)
    \/ \E a \in PostRequestArgs, body \in Responses : PostRequestMake(a, body)
    \/ \E a \in RequestArgs : AuthNew(a)
    \/ \E body \in Responses : AuthEnsure(body)
    \/ \E body \in Responses : AuthSend1(body)
    \/ AuthFinish1
    \/ \E body \in Responses : AuthRelogin(body)
    \/ \E body \in Responses : AuthSend2(body)
    \/ AuthFinish2

\* a Session that is constructed and then used
Spec == Init /\ [][Next]_vars

\* the steps of AuthorizedRequest._make_request after it was entered
SendStep ==
    \/ \E body \in Responses : AuthEnsure(body)
    \/ \E body \in Responses : AuthSend1(body)
    \/ AuthFinish1
    \/ \E body \in Responses : AuthRelogin(body)
    \/ \E body \in Responses : AuthSend2(body)
    \/ AuthFinish2

NextSession ==
    \/ \E k \in ApiKeyArgs, f \in KeyLocations : Construct(k, f)
    \/ \E force \in BOOLEAN, body \in Responses : Login(force, body)

\* the construction of a Session, from every combination of key sources,
\* followed by logins
SpecSession == InitAbsent /\ [][NextSession]_vars

(***************************************************************************)
(* Vocabulary of the properties                                            *)
(***************************************************************************)
IsRequestCall(c) == c.to = "request"

IsLoginCall(c) == c.to = "login"

IsForcedLogin(c) == c.to = "login" /\ c.force

\* the underlying HTTP request calls of the current operation
RequestCalls == SelectSeq(calls, IsRequestCall)

\* the login network calls of the current operation
LoginNetCalls == SelectSeq(calls, IsLoginCall)

\* the forced re-logins of the current operation
ForcedLogins == SelectSeq(calls, IsForcedLogin)

\* p is an initial segment of s
HasPrefix(s, p) == \E n \in 0..Len(s) : SubSeq(s, 1, n) = p

IsError(b) == "status" \in DOMAIN b /\ b["status"] = "error"

HasMessage(b) == "errormessage" \in DOMAIN b

SaysNoSession(b) ==
    IsError(b) /\ HasMessage(b) /\ b["errormessage"] = NO_SESSION_MSG

SaysInvalidSession(b) ==
    IsError(b) /\ HasMessage(b)
    /\ HasPrefix(b["errormessage"], INVALID_SESSION_PREFIX)

SaysOtherError(b) ==
    IsError(b) /\ HasMessage(b) /\ ~SaysNoSession(b) /\ ~SaysInvalidSession(b)

NonError(b) == b \in DecodedResponses /\ ~IsError(b)

LoginSuccess(b) ==
    /\ b \in DecodedResponses
    /\ "status" \in DOMAIN b /\ b["status"] = "success"
    /\ "session" \in DOMAIN b

\* an AuthorizedRequest send has ended
AuthDone == op = "auth" /\ pc \in {"success", "failure"}

Raised(e) == result.kind = "raise" /\ result.exc = e

Returned(v) == result.kind = "return" /\ result.value = v

OkLogin(force) == [op |-> "login", force |-> force, ok |-> TRUE]

FailedLogin(force) == [op |-> "login", force |-> force, ok |-> FALSE]

(***************************************************************************)
(* Properties                                                              *)
(***************************************************************************)
\* C1: when the first underlying send of an AuthorizedRequest is answered
\* with the "no session with key" error, the forced re-login succeeds and
\* the second send (if one is made) is answered with a non-error status,
\* the send succeeds and returns the second response, after exactly one
\* forced re-login and exactly two underlying request calls.
C1_RetryAfterInvalidSessionSucceeds ==
    ( /\ AuthDone
      /\ Len(RequestCalls) >= 1
      /\ SaysInvalidSession(RequestCalls[1].body)
      /\ Len(ForcedLogins) >= 1
      /\ LoginSuccess(ForcedLogins[1].body)
      /\ (Len(RequestCalls) >= 2 => NonError(RequestCalls[2].body)) )
    => ( /\ Len(RequestCalls) = 2
         /\ Len(ForcedLogins) = 1
         /\ pc = "success"
         /\ Returned(RequestCalls[2].body) )

C1_Witness ==
    /\ AuthDone
    /\ pc = "success"
    /\ Len(RequestCalls) = 2
    /\ SaysInvalidSession(RequestCalls[1].body)
    /\ Len(ForcedLogins) = 1
    /\ Returned(RequestCalls[2].body)

\* C2: one AuthorizedRequest send never issues more than two underlying
\* request calls, and when both are answered with the "no session with key"
\* error the send fails with InvalidSessionError after exactly two calls.
C2_AtMostOneRetry ==
    /\ Len(RequestCalls) <= 2
    /\ ( /\ AuthDone
         /\ Len(RequestCalls) >= 2
         /\ SaysInvalidSession(RequestCalls[1].body)
         /\ SaysInvalidSession(RequestCalls[2].body) )
       => ( /\ Len(RequestCalls) = 2
            /\ pc = "failure"
            /\ Raised("InvalidSessionError")
            /\ result.arg = RequestCalls[2].body["errormessage"] )

C2_Witness ==
    /\ AuthDone
    /\ pc = "failure"
    /\ Len(RequestCalls) = 2
    /\ SaysInvalidSession(RequestCalls[1].body)
    /\ SaysInvalidSession(RequestCalls[2].body)
    /\ Raised("InvalidSessionError")

\* C3: when the first underlying send of an AuthorizedRequest fails with
\* anything other than InvalidSessionError (NoSessionError for the exact
\* text, InvalidRequest for any other error text, a missing errormessage,
\* an undecodable body), that failure reaches the caller after exactly one
\* underlying request call, with no forced re-login and no retry.
C3_OtherFailuresPropagate ==
    ( /\ AuthDone
      /\ Len(RequestCalls) >= 1
      /\ \/ RequestCalls[1].body = Undecodable
         \/ IsError(RequestCalls[1].body)
            /\ ~SaysInvalidSession(RequestCalls[1].body) )
    => LET b == RequestCalls[1].body
       IN /\ Len(RequestCalls) = 1
          /\ Len(ForcedLogins) = 0
          /\ pc = "failure"
          /\ SaysNoSession(b) => Raised("NoSessionError")
          /\ SaysOtherError(b) =>
                Raised("InvalidRequest") /\ result.arg = b["errormessage"]
          /\ (IsError(b) /\ ~HasMessage(b)) => Raised("KeyError")
          /\ b = Undecodable => Raised("JSONDecodeError")

C3_Witness ==
    /\ AuthDone
    /\ pc = "failure"
    /\ Len(RequestCalls) = 1
    /\ SaysNoSession(RequestCalls[1].body)
    /\ Raised("NoSessionError")
    /\ Len(ForcedLogins) = 0

\* C4: on a fresh Session, two successful login() calls without force make
\* one login network call in total (the second makes none), and two
\* successful login(force=True) calls make two.
C4_LoginTwice ==
    /\ (AtRest /\ ops = <<OkLogin(FALSE), OkLogin(FALSE)>>) => loginCalls = 1
    /\ (AtRest /\ ops = <<OkLogin(FALSE), OkLogin(FALSE)>> /\ op = "login")
          => calls = <<>>
    /\ (AtRest /\ ops = <<OkLogin(TRUE), OkLogin(TRUE)>>) => loginCalls = 2

C4_Witness ==
    /\ pc = "idle"
    /\ op = "login"
    /\ ops = <<OkLogin(FALSE), OkLogin(FALSE)>>
    /\ calls = <<>>
    /\ loginCalls = 1
    /\ session.logged_in

\* C5: after a login network call answered with status "success" and a
\* session value K, the Session's key is K and logged_in is true, for a
\* first login and for a forced re-login over an earlier key.
C5_LoginStoresKey ==
    (LoginNetCalls # <<>> /\ LoginSuccess(LoginNetCalls[Len(LoginNetCalls)].body))
    => ( /\ session.key = LoginNetCalls[Len(LoginNetCalls)].body["session"]
         /\ session.logged_in )

C5_Witness ==
    /\ op = "auth"
    /\ pc = "RETRY"
    /\ Len(LoginNetCalls) = 2
    /\ LoginNetCalls[1].body = [status |-> "success", session |-> "K1"]
    /\ LoginNetCalls[2].body = [status |-> "success", session |-> "K2"]
    /\ LoginNetCalls[2].force
    /\ session.key = "K2"
    /\ session.logged_in

\* C6: every decoded login response whose status is not "success" makes
\* login() fail with LoginFailedException carrying the raw response, and
\* with no other error type.
C6_LoginFailsWithLoginFailedOnly ==
    ( /\ op = "login"
      /\ pc = "idle"
      /\ calls # <<>>
      /\ calls[1].body \in DecodedResponses
      /\ Get(calls[1].body, "status", None) # "success" )
    => ( /\ Raised("LoginFailedException")
         /\ result.arg = Str(calls[1].body) )

\* C7: a login that fails, called by the caller or by an AuthorizedRequest
\* send (before the first send, or as the forced re-login), leaves
\* logged_in and key as they were.
LoginFailureStep ==
    \/ op' = "login" /\ ops' # ops /\ result'.kind = "raise"
    \/ pc = "NOT_SENT" /\ pc' = "failure"
    \/ pc = "SENT_ONCE" /\ pending.kind = "raise"
       /\ pending.exc = "InvalidSessionError" /\ pc' = "failure"

C7_FailedLoginKeepsSession ==
    [][LoginFailureStep => session' = session]_vars

C7_Witness ==
    /\ pc = "idle"
    /\ op = "login"
    /\ ops = <<OkLogin(FALSE), FailedLogin(TRUE)>>
    /\ calls # <<>>
    /\ result.kind = "raise"
    /\ session.logged_in
    /\ session.key \in SessionKeys

\* C8: a Session constructed with no key argument and no key file, while
\* ASTROMETRY_API_KEY is not set, fails with APIKeyError, and no Session
\* whose api_key is None is ever produced.
C8_NoKeyFailsConstruction ==
    /\ ( /\ sessionState # "absent"
         /\ ctor.api_key = None
         /\ ctor.key_location = None
         /\ "ASTROMETRY_API_KEY" \notin DOMAIN environ )
       => ( /\ sessionState = "raised"
            /\ ctor.out.kind = "raise"
            /\ ctor.out.exc = "APIKeyError" )
    /\ sessionState = "constructed" => session.api_key # None

\* C9: construction takes api_key from exactly one source: the argument
\* when given; otherwise the key file when a path is given; otherwise the
\* environment variable.  A lower-priority source is not read when a
\* higher-priority one is present.
C9_KeyPriority ==
    sessionState = "constructed" =>
        IF ctor.api_key # None
        THEN session.api_key = ctor.api_key /\ ctor.read = {}
        ELSE IF ctor.key_location # None
        THEN /\ session.api_key = files[ctor.key_location]
             /\ ctor.read = {"file"}
        ELSE /\ ctor.read = {"environment"}
             /\ "ASTROMETRY_API_KEY" \in DOMAIN environ
                   => session.api_key = environ["ASTROMETRY_API_KEY"]

C9_Witness ==
    /\ sessionState = "constructed"
    /\ ctor.api_key = None
    /\ ctor.key_location = "keyfile"
    /\ "ASTROMETRY_API_KEY" \in DOMAIN environ
    /\ session.api_key = "FILEKEY"
    /\ ctor.read = {"file"}

\* C10: Request.make() classifies a decoded response: status "error" with
\* the exact text 'no "session" in JSON.' raises NoSessionError; with a
\* text starting with "no session with key", InvalidSessionError; with any
\* other text, InvalidRequest carrying the text; any other status, or none,
\* returns the decoded response unchanged.
C10_Classification ==
    (op = "request" /\ calls # <<>> /\ calls[1].body \in DecodedResponses)
    => LET b == calls[1].body
       IN /\ SaysNoSession(b) => Raised("NoSessionError")
          /\ SaysInvalidSession(b) => Raised("InvalidSessionError")
          /\ SaysOtherError(b) =>
                Raised("InvalidRequest") /\ result.arg = b["errormessage"]
          /\ ~IsError(b) => Returned(b) /\ request.response = b

C10_Witness ==
    /\ op = "request"
    /\ calls # <<>>
    /\ SaysInvalidSession(calls[1].body)
    /\ calls[1].body["errormessage"] # INVALID_SESSION_PREFIX
    /\ Raised("InvalidSessionError")

\* the JSON object an underlying call carries in its request-json field
Payload(c) == c.call.data["request_json"]["json"]

\* the current operation constructs a request of some class
IsRequestOp == op \in {"request", "postrequest", "auth"}

\* C11: on a key held by both the data and the settings mapping of a
\* request, the serialized payload of every call carries the settings value;
\* a key held by one mapping only is carried with that mapping's value (the
\* session key an AuthorizedRequest writes into its data aside), and the
\* payload has no other keys.
C11_SettingsWinMerge ==
    IsRequestOp =>
        \A i \in 1..Len(RequestCalls) :
            LET p == Payload(RequestCalls[i])
                d == args.given.data
                t == args.given.settings
            IN /\ DOMAIN p \subseteq (DOMAIN d) \cup (DOMAIN t) \cup {"session"}
               /\ (DOMAIN d) \cup (DOMAIN t) \subseteq DOMAIN p
               /\ \A k \in DOMAIN t : p[k] = t[k]
               /\ \A k \in (DOMAIN d) \ (DOMAIN t) :
                     (op = "auth" /\ k = "session") \/ p[k] = d[k]

C11_Witness ==
    /\ op = "request"
    /\ calls # <<>>
    /\ args.given.data = [a |-> "1"]
    /\ args.given.settings = [a |-> "2"]
    /\ Payload(calls[1]) = [a |-> "2"]

\* C12: a request is constructed only with a method selector that is "get"
\* or "post" in some letter case (or left out), and then calls the matching
\* transport function; with any other selector construction raises (the
\* KeyError of the lookup), no request object exists and nothing is sent.
MethodGiven ==
    IF args.given.method # Omitted THEN args.given.method
    ELSE IF op = "postrequest" THEN "post" ELSE "get"

C12_MethodSelector ==
    IsRequestOp =>
        /\ MethodGiven \in {"get", "GET"} =>
              /\ request.method = "requests.get"
              /\ \A i \in 1..Len(RequestCalls) :
                    RequestCalls[i].call.method = "requests.get"
        /\ MethodGiven \in {"post", "Post"} =>
              /\ request.method = "requests.post"
              /\ \A i \in 1..Len(RequestCalls) :
                    RequestCalls[i].call.method = "requests.post"
        /\ MethodGiven \notin {"get", "GET", "post", "Post"} =>
              /\ request.method = None
              /\ Raised("KeyError")
              /\ calls = <<>>
              /\ pc = "idle"

C12_Witness ==
    /\ op = "request"
    /\ args.given.method = "put"
    /\ request.method = None
    /\ Raised("KeyError")
    /\ calls = <<>>

\* C13: in every underlying call of an AuthorizedRequest send, first attempt
\* and retry, whatever data and settings the caller passed, the session
\* field of the payload is the key the Session holds when the call is made
\* (read here in the state the call leaves, which has the same Session).
C13_PayloadCarriesSessionKey ==
    (op = "auth" /\ pc \in {"SENT_ONCE", "SENT_TWICE"}) =>
        LET p == Payload(RequestCalls[Len(RequestCalls)])
        IN "session" \in DOMAIN p /\ p["session"] = session.key

\* C14: whenever logged_in is true, the Session's key is one the server
\* issued and equals the session value of the latest successful login
\* response, after any sequence of logins and sends.
C14_LoggedInHasLatestKey ==
    (sessionState = "constructed" /\ session.logged_in) =>
        /\ session.key \in SessionKeys
        /\ session.key = serverKey

C14_Witness ==
    /\ AuthDone
    /\ pc = "failure"
    /\ Len(ForcedLogins) = 1
    /\ ~LoginSuccess(ForcedLogins[1].body)
    /\ session.logged_in
    /\ session.key = serverKey
    /\ session.key \in SessionKeys

\* C15: an AuthorizedRequest send logs in before it sends.  On a Session
\* that is not logged in, its first network call is the (non-forced) login,
\* and when that login fails the send ends in failure with the login's
\* error and no underlying request call; on a logged-in Session the send
\* makes no login call before its first underlying request call.  The first
\* underlying call is made only from SESSION_ENSURED.
EnsureStep ==
    /\ pc = "NOT_SENT" => calls = <<>>
    /\ (pc = "NOT_SENT" /\ ~session.logged_in) =>
          /\ Len(calls') = 1
          /\ calls'[1].to = "login"
          /\ ~calls'[1].force
          /\ IF LoginSuccess(calls'[1].body)
             THEN pc' = "SESSION_ENSURED"
             ELSE pc' = "failure" /\ result'.kind = "raise"
    /\ (pc = "NOT_SENT" /\ session.logged_in) =>
          /\ calls' = <<>>
          /\ pc' = "SESSION_ENSURED"
    /\ (pc # "SENT_ONCE" /\ pc' = "SENT_ONCE") =>
          /\ pc = "SESSION_ENSURED"
          /\ calls' = Append(calls, calls'[Len(calls')])
          /\ calls'[Len(calls')].to = "request"
          /\ \A i \in 1..Len(calls) : calls[i].to = "login"

C15_SessionEnsuredFirst == [][EnsureStep]_vars

C15_Witness ==
    /\ op = "auth"
    /\ pc = "failure"
    /\ Len(calls) = 1
    /\ calls[1].to = "login"
    /\ ~LoginSuccess(calls[1].body)
    /\ result.kind = "raise"
    /\ ~session.logged_in

\* C16: a send that succeeds has absorbed at most the InvalidSessionError of
\* its first underlying call.  When the forced re-login after it fails, the
\* send fails with the error that login raised, as decided by the login's
\* answer, and no second underlying call is made.
C16_OnlyFirstInvalidSessionAbsorbed ==
    /\ (AuthDone /\ Len(ForcedLogins) >= 1 /\ ~LoginSuccess(ForcedLogins[1].body))
       => LET b == ForcedLogins[1].body
          IN /\ Len(RequestCalls) = 1
             /\ Len(ForcedLogins) = 1
             /\ pc = "failure"
             /\ result.kind = "raise"
             /\ b = Undecodable => Raised("JSONDecodeError")
             /\ (NonError(b) /\ Get(b, "status", None) # "success") =>
                   Raised("LoginFailedException") /\ result.arg = Str(b)
             /\ (NonError(b) /\ Get(b, "status", None) = "success") =>
                   Raised("KeyError")
             /\ Raised("InvalidSessionError") =>
                   SaysInvalidSession(b) /\ result.arg = b["errormessage"]
    /\ (AuthDone /\ pc = "success")
       => /\ \A i \in 1..Len(LoginNetCalls) : LoginSuccess(LoginNetCalls[i].body)
          /\ NonError(RequestCalls[Len(RequestCalls)].body)
          /\ Len(RequestCalls) = 2 => SaysInvalidSession(RequestCalls[1].body)

C16_Witness ==
    /\ AuthDone
    /\ pc = "failure"
    /\ Len(RequestCalls) = 1
    /\ SaysInvalidSession(RequestCalls[1].body)
    /\ Len(ForcedLogins) = 1
    /\ ForcedLogins[1].body = [status |-> "failure"]
    /\ Raised("LoginFailedException")

\* the operations completed before the current AuthorizedRequest send
PriorOps == IF AtRest THEN SubSeq(ops, 1, Len(ops) - 1) ELSE ops

\* the current send is one of a sequence of AuthorizedRequests on the Session
InSendSequence ==
    /\ op = "auth"
    /\ \A i \in 1..Len(PriorOps) : PriorOps[i].op = "auth"

\* an earlier send of the sequence succeeded, so the Session is logged in
LaterSend ==
    /\ InSendSequence
    /\ \E i \in 1..Len(PriorOps) : PriorOps[i].ok

\* the server has accepted the key in every underlying call of this send
KeyAccepted ==
    \A i \in 1..Len(RequestCalls) : ~SaysInvalidSession(RequestCalls[i].body)

\* C17: in a sequence of AuthorizedRequests on one Session, the session key
\* a request sends is the Session's key at send time; while the server
\* accepts the key only the first send logs in (once); and a later request
\* sends the key of the latest successful login (so a refreshed one) on its
\* first attempt, with no login before it.
C17_SessionReusedAcrossRequests ==
    /\ (InSendSequence /\ pc = "SENT_ONCE") =>
          /\ "session" \in DOMAIN Payload(RequestCalls[1])
          /\ Payload(RequestCalls[1])["session"] = session.key
    /\ (InSendSequence /\ PriorOps = <<>> /\ RequestCalls # <<>> /\ KeyAccepted) =>
          /\ Len(LoginNetCalls) = 1
          /\ loginCalls = 1
    /\ (LaterSend /\ KeyAccepted) => LoginNetCalls = <<>>
    /\ (LaterSend /\ RequestCalls # <<>>) =>
          /\ calls[1].to = "request"
          /\ "session" \in DOMAIN Payload(RequestCalls[1])
          /\ pc = "SENT_ONCE" =>
                Payload(RequestCalls[1])["session"] = serverKey

\* the current operation built a request from mappings the caller passed
HasCallerArgs == op \in {"request", "postrequest", "auth"}

\* the send has written the session key into the request's data
KeyWritten ==
    /\ op = "auth"
    /\ pc \in {"SESSION_ENSURED", "SENT_ONCE", "RETRY", "SENT_TWICE", "success"}

\* C18: the data and settings mappings the caller passed hold, at every
\* point of construction and send, exactly what the caller put in them; the
\* session key an AuthorizedRequest injects (first attempt and retry) is in
\* the request's own data, a different object from the caller's.
C18_CallerMappingsUnchanged ==
    /\ HasCallerArgs =>
          /\ args.data.items = args.given.data
          /\ args.settings.items = args.given.settings
    /\ (HasCallerArgs /\ request # NoRequest) =>
          /\ request.data.id # args.data.id
          /\ request.settings.id # args.settings.id
          /\ request.settings.items = args.given.settings
    /\ KeyWritten =>
          /\ "session" \in DOMAIN request.data.items
          /\ request.data.items["session"] = session.key
          /\ \A k \in DOMAIN args.given.data :
                k # "session" =>
                   /\ k \in DOMAIN request.data.items
                   /\ request.data.items[k] = args.given.data[k]

C18_Witness ==
    /\ AuthDone
    /\ pc = "success"
    /\ Len(RequestCalls) = 2
    /\ args.given.data = [a |-> "1"]
    /\ "session" \notin DOMAIN args.data.items
    /\ request.data.items = [a |-> "1", session |-> session.key]
    /\ Payload(RequestCalls[1])["session"] # Payload(RequestCalls[2])["session"]

\* an AuthorizedRequest send is under way
Sending == op = "auth" /\ ~AtRest

\* position of a state in the order of a send
Rank(p) ==
    CASE p = "NOT_SENT" -> 1
      [] p = "SESSION_ENSURED" -> 2
      [] p = "SENT_ONCE" -> 3
      [] p = "RETRY" -> 4
      [] p = "SENT_TWICE" -> 5
      [] OTHER -> 6

\* the successors the state machine gives each state of a send; the retry
\* is the forced login ("RETRY") followed by the second send
OrderedSuccessors(p) ==
    CASE p = "NOT_SENT" -> {"SESSION_ENSURED"}
      [] p = "SESSION_ENSURED" -> {"SENT_ONCE"}
      [] p = "SENT_ONCE" -> {"success", "failure", "RETRY"}
      [] p = "RETRY" -> {"SENT_TWICE"}
      [] p = "SENT_TWICE" -> {"success", "failure"}
      [] OTHER -> {}

\* a step of a send follows the order and never returns to a state
OrderedStep == Sending => pc' \in OrderedSuccessors(pc) /\ Rank(pc') > Rank(pc)

\* the same, with the exit of a send whose login before the first send
\* fails: no underlying call was made and the login's error is the result
OrderedStepOrLoginExit ==
    Sending =>
       /\ Rank(pc') > Rank(pc)
       /\ \/ pc' \in OrderedSuccessors(pc)
          \/ /\ pc = "NOT_SENT"
             /\ pc' = "failure"
             /\ calls' # <<>>
             /\ \A i \in 1..Len(calls') : calls'[i].to = "login"
             /\ ~LoginSuccess(calls'[Len(calls')].body)
             /\ result'.kind = "raise"

\* success is a returned decoded response, failure a raised error
TerminalOutcome ==
    AuthDone =>
       /\ pc = "success" =>
             /\ RequestCalls # <<>>
             /\ Returned(RequestCalls[Len(RequestCalls)].body)
             /\ NonError(RequestCalls[Len(RequestCalls)].body)
       /\ pc = "failure" => result.kind = "raise"

\* a send that has not ended can take its next step, whatever the server
\* answers; with the rank rising at every step this bounds a send to five
\* steps before a terminal state
CanAdvance ==
    /\ Sending => ENABLED SendStep
    /\ (Sending /\ pc \in {"NOT_SENT", "SESSION_ENSURED", "RETRY"}) =>
          \A body \in Responses :
             ENABLED (AuthEnsure(body) \/ AuthSend1(body) \/ AuthSend2(body))
    /\ (Sending /\ pc = "SENT_ONCE" /\ Catches(pending)) =>
          \A body \in Responses : ENABLED AuthRelogin(body)

\* C19 as stated: every send ends in success or failure whatever the
\* server answers (it can always advance, and only forward), passing NOT_SENT, SESSION_ENSURED, SENT_ONCE and then a
\* terminal state or one retry to SENT_TWICE and a terminal state, no state
\* revisited.
C19_StatedOrder ==
    /\ []TerminalOutcome
    /\ [][OrderedStep]_vars
    /\ []CanAdvance

\* C19, amended: every send ends in success or failure whatever the server
\* answers; from NOT_SENT it goes either straight to failure, when the
\* login before the first send fails, or on through SESSION_ENSURED and
\* SENT_ONCE and then to a terminal state or one retry to SENT_TWICE and a
\* terminal state; no state is revisited.
C19_SendTerminatesInOrder ==
    /\ []TerminalOutcome
    /\ [][OrderedStepOrLoginExit]_vars
    /\ []CanAdvance

C19_Witness ==
    /\ AuthDone
    /\ pc = "failure"
    /\ Len(RequestCalls) = 2
    /\ Len(ForcedLogins) = 1
    /\ RequestCalls[2].body = Undecodable
    /\ Raised("JSONDecodeError")

\* the step completes a login() call without force
PlainLoginStep ==
    /\ Len(ops') = Len(ops) + 1
    /\ ops'[Len(ops')].op = "login"
    /\ ~ops'[Len(ops')].force

\* the step is the login a send performs before its first attempt
SendLoginStep == op = "auth" /\ pc = "NOT_SENT"

\* C20: logged_in is false until a login succeeds and, once true, no step
\* sets it back to false (not a failed forced re-login, not an
\* InvalidSessionError answer); on a logged-in Session a login without
\* force, called directly or by a send, makes no network call and changes
\* nothing in the Session, whatever the server thinks of the key.
C20_LoggedInMonotonic ==
    /\ [](loginCalls = 0 => ~session.logged_in)
    /\ [][session.logged_in => session'.logged_in]_vars
    /\ [][(session.logged_in /\ PlainLoginStep) =>
             /\ calls' = <<>>
             /\ loginCalls' = loginCalls
             /\ session' = session
             /\ result'.kind = "return"]_vars
    /\ [][(session.logged_in /\ SendLoginStep) =>
             /\ calls' = <<>>
             /\ loginCalls' = loginCalls
             /\ session' = session
             /\ pc' = "SESSION_ENSURED"]_vars

C20_Witness ==
    /\ ops = <<[op |-> "auth", force |-> FALSE, ok |-> FALSE], OkLogin(FALSE)>>
    /\ op = "login"
    /\ calls = <<>>
    /\ loginCalls = 2
    /\ session.logged_in
    /\ result = Return(None)

====
